---- MODULE Spec2Model ----
(***************************************************************************)
(* planner-calendar: a table of Planner tasks is turned into an HTML       *)
(* calendar.  main.py holds generate_calendar_html (date resolution, the   *)
(* day index tasks_by_day, the month grid and the emitted document) and    *)
(* the command line caller main(); gui.py holds the Tk caller              *)
(* PlannerCalendarGUI.  The module models the three as one state machine:  *)
(* a program counter pc walks through the statements of the caller and of  *)
(* generate_calendar_html; the inputs (options, spreadsheet) are chosen in *)
(* the initial state.                                                      *)
(*                                                                         *)
(* Representation.  A Python str is a sequence of one-character strings.   *)
(* A spreadsheet cell of the text columns is a record [k, s]: k = "str"    *)
(* (a str with characters s), k = "num" (a number whose str() is s) or     *)
(* k = "nan" (an empty cell, NaN).  Equality of such records is Python's   *)
(* == on the cells (the number 7 and the text "7" differ).  A date is its  *)
(* proleptic Gregorian ordinal (date.toordinal()); NaT is 0; a raw date    *)
(* cell that is not a date (text such as "soon") is Malformed.             *)
(***************************************************************************)
EXTENDS Integers, Sequences, FiniteSets, TLC

VARIABLES
    caller,        \* "cli" (main.main), "gui" (PlannerCalendarGUI), "direct" (generate_calendar_html called on its own)
    pc,            \* the statement the program is at
    args,          \* the options: argparse's namespace, or the GUI's Tk variables
    excel,         \* what pd.read_excel finds: [ok, columns, rows]
    tasks_df,      \* the caller's DataFrame object: [columns, rows]
    unique_tasks,  \* main: sorted(tasks_df["Task Name"].astype(str).unique())
    task_index,    \* main: position of the colour loop in unique_tasks
    task_colors,   \* dict: task name -> colour code
    year,          \* generate_calendar_html: parameter year
    month,         \* generate_calendar_html: parameter month
    prefix_label,  \* generate_calendar_html: parameter prefix_label
    no_wrap_text,  \* generate_calendar_html: parameter no_wrap_text
    valid_df,      \* generate_calendar_html: the local tasks_df after dropna (line 49)
    row_i,         \* generate_calendar_html: position of the iterrows loop (line 51)
    tasks_by_day,  \* generate_calendar_html: dict date -> list of task names
    month_num,     \* generate_calendar_html: <<>> for None, <<n>> for the integer n
    month_i,       \* generate_calendar_html: position of the loop over month_range (line 160)
    doc,           \* generate_calendar_html: the document built so far (html_parts)
    error,         \* "none", or the way the run ended without a document
    outfile,       \* the output file: <<>> not written, <<doc>> written
    browser,       \* gui: whether webbrowser.open was called
    earlier,       \* a caller of generate_calendar_html: the results of its earlier calls
    tab            \* gui: the index of the selected tab of the notebook

vars == <<caller, pc, args, excel, tasks_df, unique_tasks, task_index, task_colors,
          year, month, prefix_label, no_wrap_text, valid_df, row_i, tasks_by_day,
          month_num, month_i, doc, error, outfile, browser, earlier, tab>>

----------------------------------------------------------------------------
(* Bounds of the model *)

\* rows of the task table
MaxRows == 2
\* length of a text handed to the escaping chain on its own
MaxTextLen == 3

----------------------------------------------------------------------------
(* Python values *)

Range(f) == {f[i] : i \in DOMAIN f}

\* a str cell, a numeric cell, an empty cell
StrCell(s) == [k |-> "str", s |-> s]
NumCell(s) == [k |-> "num", s |-> s]
NaN == [k |-> "nan", s |-> <<>>]

\* pd.notna / pd.isna on a cell
NotNa(v) == v.k /= "nan"

\* str(v), astype(str), and the f-string conversion of a cell
Str(v) == IF v.k = "nan" THEN <<"n", "a", "n">> ELSE v.s

\* bool(v): a str is true when not empty; NaN (a float) is true; the numeric
\* cells of the model are non-zero
Truthy(v) == IF v.k = "str" THEN v.s /= <<>> ELSE TRUE

\* NaT, and a raw date cell that does not parse
NaT == 0
Malformed == -1

\* pd.to_datetime(column, errors="coerce") on one cell
ToDatetime(c) == IF c > 0 THEN c ELSE NaT

\* code points of the characters the model's strings use (Python compares str
\* by code point)
OrdOf(c) ==
    CASE c = " " -> 32 [] c = "\"" -> 34 [] c = "#" -> 35 [] c = "&" -> 38
      [] c = "'" -> 39 [] c = "3" -> 51 [] c = "7" -> 55 [] c = "9" -> 57
      [] c = ";" -> 59 [] c = "<" -> 60 [] c = ">" -> 62
      [] c = "A" -> 65 [] c = "B" -> 66 [] c = "C" -> 67 [] c = "D" -> 68
      [] c = "E" -> 69 [] c = "F" -> 70 [] c = "P" -> 80 [] c = "Q" -> 81
      [] c = "a" -> 97 [] c = "g" -> 103 [] c = "l" -> 108 [] c = "m" -> 109
      [] c = "n" -> 110 [] c = "p" -> 112 [] c = "q" -> 113 [] c = "t" -> 116
      [] c = "u" -> 117 [] c = "o" -> 111 [] c = "R" -> 82 [] c = "S" -> 83
      [] c = "e" -> 101 [] c = "h" -> 104 [] c = "i" -> 105 [] c = "s" -> 115
      [] c = "v" -> 118 [] c = "w" -> 119

\* s < t for two str
RECURSIVE StrLess(_, _)
StrLess(s, t) ==
    IF t = <<>> THEN FALSE
    ELSE IF s = <<>> THEN TRUE
    ELSE IF Head(s) = Head(t) THEN StrLess(Tail(s), Tail(t))
    ELSE OrdOf(Head(s)) < OrdOf(Head(t))

\* sorted(S) for a set of str
RECURSIVE Sorted(_)
Sorted(S) ==
    IF S = {} THEN <<>>
    ELSE LET m == CHOOSE x \in S : \A y \in S \ {x} : StrLess(x, y)
         IN <<m>> \o Sorted(S \ {m})

----------------------------------------------------------------------------
(* datetime and calendar *)

IsLeap(y) == (y % 4 = 0 /\ y % 100 /= 0) \/ y % 400 = 0

DaysInMonth(y, m) ==
    IF m = 2 THEN (IF IsLeap(y) THEN 29 ELSE 28)
    ELSE IF m \in {4, 6, 9, 11} THEN 30 ELSE 31

DaysBeforeYear(y) ==
    (y - 1) * 365 + (y - 1) \div 4 - (y - 1) \div 100 + (y - 1) \div 400

\* days of the year before the first of month m
DaysBeforeMonth(y, m) ==
    <<0, 31, 59, 90, 120, 151, 181, 212, 243, 273, 304, 334>>[m]
        + (IF m > 2 /\ IsLeap(y) THEN 1 ELSE 0)

\* datetime(y, m, d).date(), as its ordinal
Date(y, m, d) == DaysBeforeYear(y) + DaysBeforeMonth(y, m) + d

\* date.year, date.month, date.day
YearOf(o) ==
    LET y0 == (o * 400) \div 146097 + 1
    IN CHOOSE y \in (y0 - 1)..(y0 + 1) : Date(y, 1, 1) <= o /\ o <= Date(y, 12, 31)

MonthOf(o) ==
    LET y == YearOf(o)
        n == o - DaysBeforeYear(y)
    IN CHOOSE m \in 1..12 : DaysBeforeMonth(y, m) < n /\ n <= DaysBeforeMonth(y, m) + DaysInMonth(y, m)

DayOf(o) == o - Date(YearOf(o), MonthOf(o), 1) + 1

\* date.weekday(): Monday is 0
Weekday(o) == (o + 6) % 7

\* calendar.SUNDAY
SUNDAY == 6

\* calendar.Calendar(firstweekday=SUNDAY).monthdatescalendar(y, m), the weeks
\* laid end to end: the month's days, led by the days back to the Sunday
\* before the 1st and trailed by the days up to the next Saturday
MonthDatesCalendar(y, m) ==
    LET first == Date(y, m, 1)
        ndays == DaysInMonth(y, m)
        days_before == (Weekday(first) - SUNDAY) % 7
        days_after == (SUNDAY - Weekday(first) - ndays) % 7
    IN [i \in 1..(days_before + ndays + days_after) |-> first - days_before + i - 1]

\* calendar.month_name[1:], lower-cased as by name.lower()
MonthNamesLower ==
    <<"january", "february", "march", "april", "may", "june", "july",
      "august", "september", "october", "november", "december">>

\* str.lower() on the month texts of the model
Lower(s) ==
    CASE s = "January" -> "january" [] s = "MARCH" -> "march"
      [] s = "February" -> "february"
      [] OTHER -> s

\* int(s): <<n>> when s is a decimal numeral, <<>> for ValueError
ParseInt(s) ==
    CASE s = "3" -> <<3>> [] s = " 2 " -> <<2>> [] s = "2" -> <<2>> [] s = "13" -> <<13>>
      [] s = "0" -> <<0>> [] s = "1800" -> <<1800>> [] s = "2023" -> <<2023>>
      [] s = "2024" -> <<2024>> [] OTHER -> <<>>

\* month_names.get(key), month_names built at lines 83 and 412
MonthNamesGet(key) ==
    IF \E n \in 1..12 : MonthNamesLower[n] = key
    THEN <<CHOOSE n \in 1..12 : MonthNamesLower[n] = key>>
    ELSE <<>>

----------------------------------------------------------------------------
(* DataFrame: [columns |-> the column names, rows |-> the rows in order];  *)
(* a row is a record with one field per column of the Planner export (a    *)
(* field of a column the frame lacks is never read).                       *)

RequiredColumns == <<"Task Name", "Start date", "Due date">>
AllColumns == {"Task Name", "Start date", "Due date", "Completed Date", "Labels", "Bucket Name"}

\* line 43: where Completed Date is not NaT, Due date becomes Completed Date
OverrideDue(r) ==
    IF r.Completed_Date /= NaT THEN [r EXCEPT !.Due_date = r.Completed_Date] ELSE r

\* line 46: where Start date is NaT, Start date becomes Due date
FallbackStart(r) ==
    IF r.Start_date = NaT THEN [r EXCEPT !.Start_date = r.Due_date] ELSE r

\* ResolveRow with the two statements in the other order
ResolveRowFallbackFirst(r) == OverrideDue(FallbackStart(r))

\* lines 43-46 on one row, in the order of the statements
ResolveRow(r) == FallbackStart(OverrideDue(r))

\* line 49: dropna(subset=["Start date", "Due date"]) keeps the row
KeptByDropna(r) == r.Start_date /= NaT /\ r.Due_date /= NaT

\* line 49: dropna(subset=["Start date", "Due date"]): the rows kept, in order
RECURSIVE DropNa(_)
DropNa(rows) ==
    IF rows = <<>> THEN <<>>
    ELSE (IF KeptByDropna(Head(rows)) THEN <<Head(rows)>> ELSE <<>>) \o DropNa(Tail(rows))

\* AddTask with the names of a day kept in the order of the names
AddTaskByName(tbd, d, task_name) ==
    IF d \notin DOMAIN tbd
    THEN [e \in DOMAIN tbd \cup {d} |-> IF e = d THEN <<task_name>> ELSE tbd[e]]
    ELSE IF task_name \in Range(tbd[d]) THEN tbd
    ELSE [tbd EXCEPT ![d] =
             LET names == Sorted({Str(x) : x \in Range(@) \cup {task_name}})
             IN [i \in DOMAIN names |-> StrCell(names[i])]]

\* AddTask without the test of line 68 that the name is not yet in the list
AddTaskUnchecked(tbd, d, task_name) ==
    IF d \notin DOMAIN tbd
    THEN [e \in DOMAIN tbd \cup {d} |-> IF e = d THEN <<task_name>> ELSE tbd[e]]
    ELSE [tbd EXCEPT ![d] = Append(@, task_name)]

\* lines 66-71: one pass of the while loop's body
AddTask(tbd, d, task_name) ==
    IF d \notin DOMAIN tbd
    THEN [e \in DOMAIN tbd \cup {d} |-> IF e = d THEN <<task_name>> ELSE tbd[e]]
    ELSE IF task_name \in Range(tbd[d]) THEN tbd
    ELSE [tbd EXCEPT ![d] = Append(@, task_name)]

\* lines 65-72: the while loop from current_date to end_date
RECURSIVE ExpandLoop(_, _, _, _)
ExpandLoop(tbd, task_name, current_date, end_date) ==
    IF current_date <= end_date
    THEN ExpandLoop(AddTask(tbd, current_date, task_name), task_name, current_date + 1, end_date)
    ELSE tbd

Max(a, b) == IF a >= b THEN a ELSE b
Min(a, b) == IF a <= b THEN a ELSE b

\* ExpandRow with the start of the range not clipped to Jan 1
ExpandRowUnclippedStart(tbd, r, y) ==
    IF YearOf(r.Start_date) > y \/ YearOf(r.Due_date) < y
    THEN tbd
    ELSE ExpandLoop(tbd, r.Task_Name, r.Start_date, Min(r.Due_date, Date(y, 12, 31)))

\* lines 52-72: the body of the iterrows loop for one row
ExpandRow(tbd, r, y) ==
    IF YearOf(r.Start_date) > y \/ YearOf(r.Due_date) < y
    THEN tbd
    ELSE ExpandLoop(tbd, r.Task_Name, Max(r.Start_date, Date(y, 1, 1)),
                    Min(r.Due_date, Date(y, 12, 31)))

----------------------------------------------------------------------------
(* generate_calendar_html: lines 37-49 *)

\* lines 38-40: the three to_datetime assignments, each of which reads its
\* column (KeyError when the frame lacks it) and writes it back in place
GchCoerce ==
    /\ pc = "gch_coerce"
    /\ LET cols == tasks_df.columns
           done == IF "Start date" \notin cols THEN 0
                   ELSE IF "Due date" \notin cols THEN 1
                   ELSE IF "Completed Date" \notin cols THEN 2 ELSE 3
       IN /\ tasks_df' = [tasks_df EXCEPT !.rows =
                  [i \in DOMAIN tasks_df.rows |->
                      [tasks_df.rows[i] EXCEPT
                          !.Start_date = IF done >= 1 THEN ToDatetime(@) ELSE @,
                          !.Due_date = IF done >= 2 THEN ToDatetime(@) ELSE @,
                          !.Completed_Date = IF done >= 3 THEN ToDatetime(@) ELSE @]]]
          /\ pc' = IF done = 3 THEN "gch_resolve" ELSE "raised"
          /\ error' = IF done = 3 THEN error ELSE "KeyError"
    /\ UNCHANGED <<caller, args, excel, unique_tasks, task_index, task_colors, year, month,
                   prefix_label, no_wrap_text, valid_df, row_i, tasks_by_day, month_num,
                   month_i, doc, outfile, browser, earlier, tab>>

\* lines 43-49: the two .loc assignments change the caller's frame in place;
\* dropna returns a new frame, bound to the local name only
GchResolve ==
    /\ pc = "gch_resolve"
    /\ tasks_df' = [tasks_df EXCEPT !.rows =
           [i \in DOMAIN tasks_df.rows |-> ResolveRow(tasks_df.rows[i])]]
    /\ valid_df' = DropNa(tasks_df'.rows)
    /\ tasks_by_day' = <<>>
    /\ row_i' = 1
    /\ pc' = "gch_rows"
    /\ UNCHANGED <<caller, args, excel, unique_tasks, task_index, task_colors, year, month,
                   prefix_label, no_wrap_text, month_num, month_i, doc,
                   error, outfile, browser, earlier, tab>>

\* lines 51-72: one iteration of the loop over the rows
GchExpandRow ==
    /\ pc = "gch_rows"
    /\ row_i <= Len(valid_df)
    /\ tasks_by_day' = ExpandRow(tasks_by_day, valid_df[row_i], year)
    /\ row_i' = row_i + 1
    /\ UNCHANGED <<caller, pc, args, excel, tasks_df, unique_tasks, task_index, task_colors,
                   year, month, prefix_label, no_wrap_text, valid_df, month_num, month_i,
                   doc, error, outfile, browser, earlier, tab>>

----------------------------------------------------------------------------
(* generate_calendar_html: lines 77-220 *)

\* the month argument: None, an int, or a str
NoMonth == [k |-> "none", n |-> 0, s |-> ""]
IntMonth(n) == [k |-> "int", n |-> n, s |-> ""]
StrMonth(s) == [k |-> "str", n |-> 0, s |-> s]

\* ConvertMonth with the month name looked up as given, not lower-cased
ConvertMonthCaseSensitive(m) ==
    IF m.k = "none" THEN <<>>
    ELSE IF m.k = "str"
         THEN (IF MonthNamesGet(m.s) /= <<>> THEN MonthNamesGet(m.s) ELSE ParseInt(m.s))
         ELSE <<m.n>>

\* lines 78-93: month_num from month; <<>> is None
ConvertMonth(m) ==
    IF m.k = "none" THEN <<>>
    ELSE IF m.k = "str"
         THEN (IF MonthNamesGet(Lower(m.s)) /= <<>>
               THEN MonthNamesGet(Lower(m.s))
               ELSE ParseInt(m.s))
         ELSE <<m.n>>

\* line 158: month_range
MonthRange(mn) ==
    IF mn /= <<>> THEN <<mn[1]>> ELSE [i \in 1..12 |-> i]

\* line 187: the colour task_colors.get falls back to
FallbackColor == <<"#", "f", "0", "f", "0", "f", "0">>

\* line 187: task_colors.get(task_name, "#f0f0f0")
ColorOf(colors, task_name) ==
    IF task_name \in DOMAIN colors THEN colors[task_name] ELSE FallbackColor

\* line 190: tasks_df.loc[tasks_df["Task Name"] == task_name, "Labels"], on
\* the frame dropna left
RECURSIVE LabelsOf(_, _)
LabelsOf(rows, task_name) ==
    IF rows = <<>> THEN <<>>
    ELSE (IF Head(rows).Task_Name = task_name THEN <<Head(rows).Labels>> ELSE <<>>)
         \o LabelsOf(Tail(rows), task_name)

\* line 191: "" if labels.empty or labels.isna().all() else labels.values[0]
FirstLabel(labels) ==
    IF labels = <<>> \/ \A i \in DOMAIN labels : ~NotNa(labels[i])
    THEN StrCell(<<>>)
    ELSE labels[1]

\* lines 189-194: labeled_task_name
LabeledTaskName(rows, prefix, task_name) ==
    IF prefix
    THEN LET labels == FirstLabel(LabelsOf(rows, task_name))
         IN IF Truthy(labels) THEN StrCell(Str(labels) \o Str(task_name)) ELSE task_name
    ELSE task_name

\* Replacements with the ampersand replaced last
ReplacementsAmpersandLast ==
    << <<";", <<>> >>,
       <<"<", <<"&", "l", "t", ";">> >>,
       <<">", <<"&", "g", "t", ";">> >>,
       <<"\"", <<"&", "q", "u", "o", "t", ";">> >>,
       <<"'", <<"&", "#", "3", "9", ";">> >>,
       <<"&", <<"&", "a", "m", "p", ";">> >> >>

\* lines 197-202: the replace calls, in order: <<old, new>>
Replacements ==
    << <<";", <<>> >>,
       <<"&", <<"&", "a", "m", "p", ";">> >>,
       <<"<", <<"&", "l", "t", ";">> >>,
       <<">", <<"&", "g", "t", ";">> >>,
       <<"\"", <<"&", "q", "u", "o", "t", ";">> >>,
       <<"'", <<"&", "#", "3", "9", ";">> >> >>

\* str.replace(old, new) for a one-character old
RECURSIVE Replace(_, _, _)
Replace(s, old, new) ==
    IF s = <<>> THEN <<>>
    ELSE (IF Head(s) = old THEN new ELSE <<Head(s)>>) \o Replace(Tail(s), old, new)

\* lines 196-203: the chain from its i-th replace call on
RECURSIVE EscapeFrom(_, _)
EscapeFrom(s, i) ==
    IF i > Len(Replacements) THEN s
    ELSE EscapeFrom(Replace(s, Replacements[i][1], Replacements[i][2]), i + 1)

\* lines 196-203: escaped_task_name
EscapeTaskName(s) == EscapeFrom(s, 1)

\* lines 185-207: the span of one task of a day
TaskSpan(rows, colors, prefix, task_name) ==
    LET escaped_task_name == EscapeTaskName(LabeledTaskName(rows, prefix, task_name).s)
    IN [title |-> escaped_task_name,
        background_color |-> ColorOf(colors, task_name),
        body |-> escaped_task_name]

\* lines 185-203: what stops the span of one task: the Labels column read at
\* line 190 (KeyError), .replace on a name that is no str (AttributeError)
SpanError(cols, rows, prefix, task_name) ==
    IF prefix /\ "Labels" \notin cols THEN "KeyError"
    ELSE IF LabeledTaskName(rows, prefix, task_name).k /= "str" THEN "AttributeError"
    ELSE "none"

\* line 184: tasks_by_day.get(day_date, [])
TasksToday(tbd, d) == IF d \in DOMAIN tbd THEN tbd[d] ELSE <<>>

\* lines 176-177: the cell's class
DayClass(d, mn) == IF <<MonthOf(d)>> /= mn THEN "day other-month" ELSE "day"

\* lines 174-210: one day cell
DayCell(tbd, rows, colors, prefix, mn, d) ==
    [date |-> d,
     day_class |-> DayClass(d, mn),
     day_number |-> DayOf(d),
     tasks |-> [j \in DOMAIN TasksToday(tbd, d) |->
                   TaskSpan(rows, colors, prefix, TasksToday(tbd, d)[j])]]

\* the first error among the spans of a sequence of days, in the order of the
\* loops at lines 173-185
RECURSIVE FirstError(_, _, _, _, _)
FirstError(tbd, cols, rows, prefix, days) ==
    IF days = <<>> THEN "none"
    ELSE LET today == TasksToday(tbd, Head(days))
             bad == {j \in DOMAIN today : SpanError(cols, rows, prefix, today[j]) /= "none"}
         IN IF bad /= {}
            THEN SpanError(cols, rows, prefix, today[CHOOSE j \in bad : \A k \in bad : j <= k])
            ELSE FirstError(tbd, cols, rows, prefix, Tail(days))

EmptyDoc == [title |-> [month |-> 0, year |-> 0], grid_columns |-> "", single_month |-> FALSE,
             wrapping |-> "", blocks |-> <<>>]

\* lines 77-153: month_num, the title, the layout and the document's head;
\* calendar.month_name[month_num] at line 100 raises IndexError past December
GchConvertMonth ==
    /\ pc = "gch_rows"
    /\ row_i > Len(valid_df)
    /\ month_num' = ConvertMonth(month)
    /\ IF month_num' /= <<>> /\ (month_num'[1] > 12 \/ month_num'[1] < -13)
       THEN /\ pc' = "raised"
            /\ error' = "IndexError"
            /\ UNCHANGED <<doc, month_i>>
       ELSE /\ pc' = "gch_months"
            /\ month_i' = 1
            /\ doc' = [title |-> [month |-> IF month_num' /= <<>> THEN month_num'[1] ELSE 0,
                                  year |-> year],
                       grid_columns |-> IF month_num' /= <<>> THEN "1fr" ELSE "repeat(3, 1fr)",
                       single_month |-> month_num' /= <<>>,
                       wrapping |-> IF no_wrap_text THEN "nowrap" ELSE "wrap",
                       blocks |-> <<>>]
            /\ UNCHANGED error
    /\ UNCHANGED <<caller, args, excel, tasks_df, unique_tasks, task_index, task_colors, year,
                   month, prefix_label, no_wrap_text, valid_df, row_i, tasks_by_day,
                   outfile, browser, earlier, tab>>

\* lines 160-213: one month block; monthdatescalendar raises IllegalMonthError
\* for a month outside 1..12, and a span may raise (SpanError)
GchRenderMonth ==
    /\ pc = "gch_months"
    /\ month_i <= Len(MonthRange(month_num))
    /\ LET current_month == MonthRange(month_num)[month_i]
       IN IF current_month \notin 1..12
          THEN /\ pc' = "raised"
               /\ error' = "IllegalMonthError"
               /\ UNCHANGED <<doc, month_i>>
          ELSE LET days == MonthDatesCalendar(year, current_month)
                   err == FirstError(tasks_by_day, tasks_df.columns, valid_df, prefix_label, days)
               IN IF err /= "none"
                  THEN /\ pc' = "raised"
                       /\ error' = err
                       /\ UNCHANGED <<doc, month_i>>
                  ELSE /\ doc' = [doc EXCEPT !.blocks = Append(@,
                               [month |-> current_month,
                                cells |-> [i \in DOMAIN days |->
                                    DayCell(tasks_by_day, valid_df, task_colors,
                                            prefix_label, month_num, days[i])]])]
                       /\ month_i' = month_i + 1
                       /\ UNCHANGED <<pc, error>>
    /\ UNCHANGED <<caller, args, excel, tasks_df, unique_tasks, task_index, task_colors, year,
                   month, prefix_label, no_wrap_text, valid_df, row_i, tasks_by_day,
                   month_num, outfile, browser, earlier, tab>>

\* lines 215-220: the document is returned to the caller
GchReturn ==
    /\ pc = "gch_months"
    /\ month_i > Len(MonthRange(month_num))
    /\ pc' = "gch_returned"
    /\ UNCHANGED <<caller, args, excel, tasks_df, unique_tasks, task_index, task_colors, year,
                   month, prefix_label, no_wrap_text, valid_df, row_i, tasks_by_day,
                   month_num, month_i, doc, error, outfile, browser, earlier, tab>>

----------------------------------------------------------------------------
(* The callers' colour loop: main.py 328-381, gui.py 376-429 *)

HUE_STEP == 29

\* int(hashlib.md5(s.encode()).hexdigest(), 16) % 360, on the texts of the
\* model
Md5Mod360(s) ==
    CASE s = <<"A">> -> 265 [] s = <<"B">> -> 193 [] s = <<"7">> -> 315
      [] s = <<"E">> -> 322 [] s = <<"F">> -> 90
      [] s = <<"E", "n", "g">> -> 43 [] s = <<"O", "p", "s">> -> 48
      [] s = <<"D", "e", "s", "i", "g", "n">> -> 249
      [] s = <<"R", "e", "v", "i", "e", "w">> -> 147
      [] s = <<"S", "h", "i", "p">> -> 172

\* sorted(tasks_df["Task Name"].astype(str).unique())
UniqueTasks(rows) == Sorted({Str(rows[i].Task_Name) : i \in DOMAIN rows})

\* tasks_df.loc[tasks_df["Task Name"] == task_name], task_name a str
RECURSIVE MatchingRows(_, _)
MatchingRows(rows, task_name) ==
    IF rows = <<>> THEN <<>>
    ELSE (IF Head(rows).Task_Name = StrCell(task_name) THEN <<Head(rows)>> ELSE <<>>)
         \o MatchingRows(Tail(rows), task_name)

\* colorsys._v(m1, m2, hue): hue in degrees, m1 and m2 in ten-thousandths,
\* the result in six-hundred-thousandths
HlsV(m1, m2, hue) ==
    LET h == hue % 360
    IN IF h < 60 THEN 60 * m1 + (m2 - m1) * h
       ELSE IF h < 180 THEN 60 * m2
       ELSE IF h < 240 THEN 60 * m1 + (m2 - m1) * (240 - h)
       ELSE 60 * m1

\* colorsys.hls_to_rgb(h, l, s) and int(c * 255) on its components: h in
\* degrees, l and s in hundredths
HlsToRgb(h, l, s) ==
    IF s = 0 THEN [i \in 1..3 |-> (255 * l) \div 100]
    ELSE LET m2 == IF l <= 50 THEN l * (100 + s) ELSE 100 * l + 100 * s - l * s
             m1 == 200 * l - m2
         IN <<(255 * HlsV(m1, m2, h + 120)) \div 600000,
              (255 * HlsV(m1, m2, h)) \div 600000,
              (255 * HlsV(m1, m2, h + 240)) \div 600000>>

\* the format :02x of an int in 0..255
HexDigits == <<"0", "1", "2", "3", "4", "5", "6", "7", "8", "9", "a", "b", "c", "d", "e", "f">>
Hex02(n) == <<HexDigits[(n \div 16) + 1], HexDigits[(n % 16) + 1]>>

\* hex_color
HexColor(hue, lightness, saturation) ==
    LET rgb == HlsToRgb(hue, lightness, saturation)
    IN <<"#">> \o Hex02(rgb[1]) \o Hex02(rgb[2]) \o Hex02(rgb[3])

\* max(0.0, min(1.0, x)), in hundredths
Clamp(x) == Max(0, Min(100, x))

\* CliLabelHue with the sequential hue whatever --alternate-colors says
CliLabelHueSequential(rows, a, i, task_name) ==
    LET matching_rows == MatchingRows(rows, task_name)
    IN IF a.color_by_label /\ matching_rows /= <<>> /\ NotNa(matching_rows[1].Labels)
       THEN <<(HUE_STEP * i) % 360>>
       ELSE <<>>

\* main.py 337-351: the hue the label gives the i-th task; <<>> is None
CliLabelHue(rows, a, i, task_name) ==
    LET matching_rows == MatchingRows(rows, task_name)
    IN IF a.color_by_label /\ matching_rows /= <<>> /\ NotNa(matching_rows[1].Labels)
       THEN <<IF a.alternate_colors THEN (HUE_STEP * i) % 360
              ELSE Md5Mod360(Str(matching_rows[1].Labels))>>
       ELSE <<>>

\* main.py 353-367: the hue the bucket gives the i-th task
CliBucketHue(rows, a, i, task_name) ==
    LET matching_rows == MatchingRows(rows, task_name)
    IN IF a.color_by_bucket /\ matching_rows /= <<>> /\ NotNa(matching_rows[1].Bucket_Name)
       THEN <<IF a.alternate_colors THEN (HUE_STEP * i) % 360
              ELSE Md5Mod360(Str(matching_rows[1].Bucket_Name))>>
       ELSE <<>>

\* main.py 336-376: hue, the bucket's assignment coming after the label's
CliHue(rows, a, i, task_name) ==
    IF CliBucketHue(rows, a, i, task_name) /= <<>> THEN CliBucketHue(rows, a, i, task_name)[1]
    ELSE IF CliLabelHue(rows, a, i, task_name) /= <<>> THEN CliLabelHue(rows, a, i, task_name)[1]
    ELSE Md5Mod360(task_name)

\* main.py 340, 356: the column read on the matching rows, KeyError when the
\* frame lacks it
CliHueError(cols, rows, a, task_name) ==
    IF MatchingRows(rows, task_name) = <<>> THEN "none"
    ELSE IF a.color_by_label /\ "Labels" \notin cols THEN "KeyError"
    ELSE IF a.color_by_bucket /\ "Bucket Name" \notin cols THEN "KeyError"
    ELSE "none"

\* GuiLabelHue with the sequential hue counted from one
GuiLabelHueOneBased(rows, a, i, task_name) ==
    LET matching_rows == MatchingRows(rows, task_name)
    IN IF a.color_by_label /\ matching_rows /= <<>> /\ NotNa(matching_rows[1].Labels)
       THEN <<IF a.alternate_colors THEN (HUE_STEP * (i + 1)) % 360
              ELSE Md5Mod360(Str(matching_rows[1].Labels))>>
       ELSE <<>>

\* gui.py 389-402
GuiLabelHue(rows, a, i, task_name) ==
    LET matching_rows == MatchingRows(rows, task_name)
    IN IF a.color_by_label /\ matching_rows /= <<>> /\ NotNa(matching_rows[1].Labels)
       THEN <<IF a.alternate_colors THEN (HUE_STEP * i) % 360
              ELSE Md5Mod360(Str(matching_rows[1].Labels))>>
       ELSE <<>>

\* GuiBucketHue with a hue step of its own, not the 29 of main.py
GuiBucketHueOtherStep(rows, a, i, task_name) ==
    LET matching_rows == MatchingRows(rows, task_name)
    IN IF a.color_by_bucket /\ matching_rows /= <<>> /\ NotNa(matching_rows[1].Bucket_Name)
       THEN <<IF a.alternate_colors THEN (30 * i) % 360
              ELSE Md5Mod360(Str(matching_rows[1].Bucket_Name))>>
       ELSE <<>>

\* gui.py 405-418
GuiBucketHue(rows, a, i, task_name) ==
    LET matching_rows == MatchingRows(rows, task_name)
    IN IF a.color_by_bucket /\ matching_rows /= <<>> /\ NotNa(matching_rows[1].Bucket_Name)
       THEN <<IF a.alternate_colors THEN (HUE_STEP * i) % 360
              ELSE Md5Mod360(Str(matching_rows[1].Bucket_Name))>>
       ELSE <<>>

\* GuiHue with the sequential hue on the fallback to the name too
GuiHueFallbackSequential(rows, a, i, task_name) ==
    IF GuiBucketHue(rows, a, i, task_name) /= <<>> THEN GuiBucketHue(rows, a, i, task_name)[1]
    ELSE IF GuiLabelHue(rows, a, i, task_name) /= <<>> THEN GuiLabelHue(rows, a, i, task_name)[1]
    ELSE IF a.alternate_colors THEN (HUE_STEP * i) % 360
    ELSE Md5Mod360(task_name)

\* gui.py 386-424
GuiHue(rows, a, i, task_name) ==
    IF GuiBucketHue(rows, a, i, task_name) /= <<>> THEN GuiBucketHue(rows, a, i, task_name)[1]
    ELSE IF GuiLabelHue(rows, a, i, task_name) /= <<>> THEN GuiLabelHue(rows, a, i, task_name)[1]
    ELSE Md5Mod360(task_name)

\* gui.py 392, 408
GuiHueError(cols, rows, a, task_name) ==
    IF MatchingRows(rows, task_name) = <<>> THEN "none"
    ELSE IF a.color_by_label /\ "Labels" \notin cols THEN "KeyError"
    ELSE IF a.color_by_bucket /\ "Bucket Name" \notin cols THEN "KeyError"
    ELSE "none"

\* datetime.now().year
CurrentYear == 2026

\* main.py 384-392, gui.py 432-442: target_year; given = 0 for no year
TargetYear(rows, given) ==
    IF given /= 0 THEN given
    ELSE LET valid_start_dates ==
                 {ToDatetime(rows[i].Start_date) : i \in DOMAIN rows} \ {NaT}
         IN IF valid_start_dates /= {}
            THEN YearOf(CHOOSE d \in valid_start_dates : \A e \in valid_start_dates : d <= e)
            ELSE CurrentYear

\* the frame of a caller that has not read the workbook
NoFrame == [columns |-> {}, rows |-> <<>>]

\* whether open(path, "w") succeeds
Writable(path) == path = "planner_calendar.html"

\* the variables of generate_calendar_html
gch_vars == <<year, month, prefix_label, no_wrap_text, valid_df, row_i, tasks_by_day,
              month_num, month_i, doc>>

----------------------------------------------------------------------------
(* main.main: main.py 287-430 *)

\* the month argument of the exits at lines 409 and 418
BadMonth == [k |-> "exit", n |-> 0, s |-> ""]

\* lines 402-418: target_month from --month
CliTargetMonth(m) ==
    IF m = "" THEN NoMonth
    ELSE IF ParseInt(m) /= <<>>
         THEN (IF ParseInt(m)[1] < 1 \/ ParseInt(m)[1] > 12 THEN BadMonth
               ELSE IntMonth(ParseInt(m)[1]))
         ELSE (IF MonthNamesGet(Lower(m)) /= <<>> THEN IntMonth(MonthNamesGet(Lower(m))[1])
               ELSE BadMonth)

\* lines 289-292: both colour flags end the run
CliValidate ==
    /\ pc = "cli_start"
    /\ IF args.color_by_label /\ args.color_by_bucket
       THEN pc' = "exit_1" /\ error' = "both_flags"
       ELSE pc' = "cli_read" /\ UNCHANGED error
    /\ UNCHANGED <<caller, args, excel, tasks_df, unique_tasks, task_index, task_colors,
                   gch_vars, outfile, browser, earlier, tab>>

\* lines 295-319: pd.read_excel, every failure of which ends the run
CliReadExcel ==
    /\ pc = "cli_read"
    /\ IF excel.isfile /\ excel.ok
       THEN /\ tasks_df' = [columns |-> excel.columns, rows |-> excel.rows]
            /\ pc' = "cli_columns"
            /\ UNCHANGED error
       ELSE /\ pc' = "exit_1"
            /\ error' = "read_excel"
            /\ UNCHANGED tasks_df
    /\ UNCHANGED <<caller, args, excel, unique_tasks, task_index, task_colors,
                   gch_vars, outfile, browser, earlier, tab>>

\* lines 321-331: the required columns, then the start of the colour loop
CliCheckColumns ==
    /\ pc = "cli_columns"
    /\ IF ~(Range(RequiredColumns) \subseteq tasks_df.columns)
       THEN /\ pc' = "exit_1"
            /\ error' = "missing_columns"
            /\ UNCHANGED <<unique_tasks, task_index, task_colors>>
       ELSE /\ unique_tasks' = UniqueTasks(tasks_df.rows)
            /\ task_colors' = <<>>
            /\ task_index' = 0
            /\ pc' = "cli_colors"
            /\ UNCHANGED error
    /\ UNCHANGED <<caller, args, excel, tasks_df, gch_vars, outfile, browser, earlier, tab>>

\* lines 335-381: one iteration of the colour loop
CliColor ==
    /\ pc = "cli_colors"
    /\ task_index < Len(unique_tasks)
    /\ LET task_name == unique_tasks[task_index + 1]
       IN IF CliHueError(tasks_df.columns, tasks_df.rows, args, task_name) /= "none"
          THEN /\ pc' = "raised"
               /\ error' = CliHueError(tasks_df.columns, tasks_df.rows, args, task_name)
               /\ UNCHANGED <<task_index, task_colors>>
          ELSE /\ task_colors' =
                      [n \in DOMAIN task_colors \cup {StrCell(task_name)} |->
                          IF n = StrCell(task_name)
                          THEN HexColor(CliHue(tasks_df.rows, args, task_index, task_name),
                                        Clamp(args.color_lightness),
                                        Clamp(args.color_saturation))
                          ELSE task_colors[n]]
               /\ task_index' = task_index + 1
               /\ UNCHANGED <<pc, error>>
    /\ UNCHANGED <<caller, args, excel, tasks_df, unique_tasks, gch_vars, outfile, browser, earlier, tab>>

\* lines 383-422: the year, the month, and the call of generate_calendar_html
CliTarget ==
    /\ pc = "cli_colors"
    /\ task_index >= Len(unique_tasks)
    /\ IF CliTargetMonth(args.month) = BadMonth
       THEN /\ pc' = "exit_1"
            /\ error' = "month"
            /\ UNCHANGED <<year, month, prefix_label, no_wrap_text>>
       ELSE /\ year' = TargetYear(tasks_df.rows, args.year)
            /\ month' = CliTargetMonth(args.month)
            /\ prefix_label' = args.prefix_labels
            /\ no_wrap_text' = args.no_wrap_text
            /\ pc' = "gch_coerce"
            /\ UNCHANGED error
    /\ UNCHANGED <<caller, args, excel, tasks_df, unique_tasks, task_index, task_colors,
                   valid_df, row_i, tasks_by_day, month_num, month_i, doc, outfile, browser, earlier, tab>>

\* lines 424-430: the document is written; a failure of open ends the run
CliWrite ==
    /\ caller = "cli"
    /\ pc = "gch_returned"
    /\ IF Writable(args.output)
       THEN /\ outfile' = <<doc>>
            /\ pc' = "exit_0"
            /\ UNCHANGED error
       ELSE /\ pc' = "exit_1"
            /\ error' = "write"
            /\ UNCHANGED outfile
    /\ UNCHANGED <<caller, args, excel, tasks_df, unique_tasks, task_index, task_colors,
                   gch_vars, browser, earlier, tab>>

----------------------------------------------------------------------------
(* PlannerCalendarGUI: gui.py 287-489 *)

\* str.strip() on the texts of the model
Strip(s) == CASE s = " 2 " -> "2" [] s = " 2024 " -> "2024" [] OTHER -> s

\* validate_inputs without the test of the two colour flags
GuiValidationErrorNoExclusivity(a, x) ==
    IF a.excel_file = "" THEN "no_file"
    ELSE IF ~x.isfile THEN "file_not_found"
    ELSE IF Strip(a.year_str) /= "" /\ ParseInt(Strip(a.year_str)) = <<>>
         THEN "year_not_integer"
    ELSE IF Strip(a.year_str) /= "" /\ (ParseInt(Strip(a.year_str))[1] < 1900
                                        \/ ParseInt(Strip(a.year_str))[1] > 2100)
         THEN "year_out_of_range"
    ELSE IF a.color_saturation < 0 \/ a.color_saturation > 100 THEN "saturation"
    ELSE IF a.color_lightness < 0 \/ a.color_lightness > 100 THEN "lightness"
    ELSE "none"

\* validate_inputs, lines 287-338: the error it shows, "none" when it
\* returns True
GuiValidationError(a, x) ==
    IF a.excel_file = "" THEN "no_file"
    ELSE IF ~x.isfile THEN "file_not_found"
    ELSE IF Strip(a.year_str) /= "" /\ ParseInt(Strip(a.year_str)) = <<>>
         THEN "year_not_integer"
    ELSE IF Strip(a.year_str) /= "" /\ (ParseInt(Strip(a.year_str))[1] < 1900
                                        \/ ParseInt(Strip(a.year_str))[1] > 2100)
         THEN "year_out_of_range"
    ELSE IF a.color_saturation < 0 \/ a.color_saturation > 100 THEN "saturation"
    ELSE IF a.color_lightness < 0 \/ a.color_lightness > 100 THEN "lightness"
    ELSE IF a.color_by_label /\ a.color_by_bucket THEN "both_flags"
    ELSE "none"

\* lines 342-343: generate_calendar returns when validate_inputs fails
GuiValidate ==
    /\ pc = "gui_start"
    /\ IF GuiValidationError(args, excel) /= "none"
       THEN pc' = "gui_returned" /\ error' = GuiValidationError(args, excel)
       ELSE pc' = "gui_read" /\ UNCHANGED error
    /\ UNCHANGED <<caller, args, excel, tasks_df, unique_tasks, task_index, task_colors,
                   gch_vars, outfile, browser, earlier, tab>>

\* lines 349-359: pd.read_excel; a failure is shown and generate_calendar
\* returns
GuiReadExcel ==
    /\ pc = "gui_read"
    /\ IF excel.ok
       THEN /\ tasks_df' = [columns |-> excel.columns, rows |-> excel.rows]
            /\ pc' = "gui_columns"
            /\ UNCHANGED error
       ELSE /\ pc' = "gui_returned"
            /\ error' = "read_excel"
            /\ UNCHANGED tasks_df
    /\ UNCHANGED <<caller, args, excel, unique_tasks, task_index, task_colors,
                   gch_vars, outfile, browser, earlier, tab>>

\* lines 361-383: the required columns, then the start of the colour loop
GuiCheckColumns ==
    /\ pc = "gui_columns"
    /\ IF ~(Range(RequiredColumns) \subseteq tasks_df.columns)
       THEN /\ pc' = "gui_returned"
            /\ error' = "missing_columns"
            /\ UNCHANGED <<unique_tasks, task_index, task_colors>>
       ELSE /\ unique_tasks' = UniqueTasks(tasks_df.rows)
            /\ task_colors' = <<>>
            /\ task_index' = 0
            /\ pc' = "gui_colors"
            /\ UNCHANGED error
    /\ UNCHANGED <<caller, args, excel, tasks_df, gch_vars, outfile, browser, earlier, tab>>

\* lines 385-429: one iteration of the colour loop
GuiColor ==
    /\ pc = "gui_colors"
    /\ task_index < Len(unique_tasks)
    /\ LET task_name == unique_tasks[task_index + 1]
       IN IF GuiHueError(tasks_df.columns, tasks_df.rows, args, task_name) /= "none"
          THEN /\ pc' = "raised"
               /\ error' = GuiHueError(tasks_df.columns, tasks_df.rows, args, task_name)
               /\ UNCHANGED <<task_index, task_colors>>
          ELSE /\ task_colors' =
                      [n \in DOMAIN task_colors \cup {StrCell(task_name)} |->
                          IF n = StrCell(task_name)
                          THEN HexColor(GuiHue(tasks_df.rows, args, task_index, task_name),
                                        args.color_lightness, args.color_saturation)
                          ELSE task_colors[n]]
               /\ task_index' = task_index + 1
               /\ UNCHANGED <<pc, error>>
    /\ UNCHANGED <<caller, args, excel, tasks_df, unique_tasks, gch_vars, outfile, browser, earlier, tab>>

\* lines 431-465: the year, the month as the text of the form, and the call
\* of generate_calendar_html
GuiTarget ==
    /\ pc = "gui_colors"
    /\ task_index >= Len(unique_tasks)
    /\ year' = TargetYear(tasks_df.rows,
                          IF Strip(args.year_str) /= "" THEN ParseInt(Strip(args.year_str))[1]
                          ELSE 0)
    /\ month' = IF Strip(args.month) /= "" THEN StrMonth(Strip(args.month)) ELSE NoMonth
    /\ prefix_label' = args.prefix_labels
    /\ no_wrap_text' = args.no_wrap_text
    /\ pc' = "gch_coerce"
    /\ UNCHANGED <<caller, args, excel, tasks_df, unique_tasks, task_index, task_colors,
                   valid_df, row_i, tasks_by_day, month_num, month_i, doc, error, outfile,
                   browser, earlier, tab>>

\* lines 467-473: the document is written and generate_calendar returns True;
\* a failure of open is raised to the handler
GuiWrite ==
    /\ caller = "gui"
    /\ pc = "gch_returned"
    /\ IF Writable(args.output)
       THEN /\ outfile' = <<doc>>
            /\ pc' = "gui_returned"
            /\ UNCHANGED error
       ELSE /\ pc' = "raised"
            /\ error' = "OSError"
            /\ UNCHANGED outfile
    /\ UNCHANGED <<caller, args, excel, tasks_df, unique_tasks, task_index, task_colors,
                   gch_vars, browser, earlier, tab>>

\* lines 475-478: any exception raised after validation is shown and
\* generate_calendar returns False
GuiExcept ==
    /\ caller = "gui"
    /\ pc = "raised"
    /\ pc' = "gui_returned"
    /\ UNCHANGED <<caller, args, excel, tasks_df, unique_tasks, task_index, task_colors,
                   gch_vars, error, outfile, browser, earlier, tab>>

\* GuiView with the browser opened whatever generate_calendar returned
GuiViewAlways ==
    /\ caller = "gui"
    /\ pc = "gui_returned"
    /\ args.view
    /\ browser' = TRUE
    /\ pc' = "gui_ready"
    /\ UNCHANGED <<caller, args, excel, tasks_df, unique_tasks, task_index, task_colors,
                   gch_vars, error, outfile, earlier, tab>>

\* lines 480-489: generate_and_view_calendar opens the browser when
\* generate_calendar returned True
GuiView ==
    /\ caller = "gui"
    /\ pc = "gui_returned"
    /\ args.view
    /\ browser' = (error = "none" /\ outfile /= <<>>)
    /\ pc' = "gui_ready"
    /\ UNCHANGED <<caller, args, excel, tasks_df, unique_tasks, task_index, task_colors,
                   gch_vars, error, outfile, earlier, tab>>

----------------------------------------------------------------------------
(* generate_calendar_html called on its own *)

NextHtml == GchCoerce \/ GchResolve \/ GchExpandRow \/ GchConvertMonth \/ GchRenderMonth \/ GchReturn

\* lines 37-72 alone: the date resolution and the day index
NextIndex == GchCoerce \/ GchResolve \/ GchExpandRow

NoArgs == [color_by_label |-> FALSE, color_by_bucket |-> FALSE, alternate_colors |-> FALSE,
           prefix_labels |-> FALSE, no_wrap_text |-> FALSE, month |-> "", year |-> 0,
           year_str |-> "", color_saturation |-> 70, color_lightness |-> 85,
           excel_file |-> "tasks.xlsx", output |-> "planner_calendar.html", view |-> FALSE]

\* the state at the call generate_calendar_html(df, no_wrap, y, colors, prefix, m)
\* of a caller that holds nothing else
DirectCall(df, no_wrap, y, colors, prefix, m) ==
    /\ caller = "direct"
    /\ pc = "gch_coerce"
    /\ args = NoArgs
    /\ excel = [isfile |-> TRUE, ok |-> TRUE, columns |-> df.columns, rows |-> df.rows]
    /\ tasks_df = df
    /\ unique_tasks = <<>>
    /\ task_index = 0
    /\ task_colors = colors
    /\ year = y
    /\ month = m
    /\ prefix_label = prefix
    /\ no_wrap_text = no_wrap
    /\ valid_df = <<>>
    /\ row_i = 0
    /\ tasks_by_day = <<>>
    /\ month_num = <<>>
    /\ month_i = 0
    /\ doc = EmptyDoc
    /\ error = "none"
    /\ outfile = <<>>
    /\ browser = FALSE
    /\ earlier = <<>>
    /\ tab = 0

\* the sequences of at most MaxRows elements of S
SeqsUpTo(S) == UNION {[1..n -> S] : n \in 0..MaxRows}

\* the inputs of the day index.  Dates: Dec 20 2023, Jan 1 2024 and Jan 5
\* 2024, for the target years 2023 and 2024, so that a range lies inside the
\* year, before it, after it, or across either of its ends.  Tables of up to
\* MaxRows rows combine every present or absent start and due date with an
\* absent or present completed date, under two names; one-row tables run
\* through every combination of a date, an empty cell and a malformed cell in
\* the three date columns.
IndexNames == {StrCell(<<"A">>), StrCell(<<"B">>)}
IndexDates == {Date(2023, 12, 20), Date(2024, 1, 1), Date(2024, 1, 5)}
IndexYears == {2023, 2024}
IndexRows ==
    [Task_Name : IndexNames, Start_date : IndexDates \cup {NaT}, Due_date : IndexDates \cup {NaT},
     Completed_Date : {NaT, Date(2024, 1, 1)}, Labels : {NaN}, Bucket_Name : {NaN}]
IndexCellRows ==
    [Task_Name : {StrCell(<<"A">>)}, Start_date : IndexDates \cup {NaT, Malformed},
     Due_date : IndexDates \cup {NaT, Malformed},
     Completed_Date : IndexDates \cup {NaT, Malformed}, Labels : {NaN}, Bucket_Name : {NaN}]

InitIndex ==
    \E rows \in SeqsUpTo(IndexRows) \cup {<<r>> : r \in IndexCellRows}, y \in IndexYears :
        DirectCall([columns |-> AllColumns, rows |-> rows], FALSE, y, <<>>, FALSE, IntMonth(1))

SpecIndex == InitIndex /\ [][NextIndex]_vars

\* a dict of colours handed to generate_calendar_html by a caller of its own
SomeColors ==
    [n \in {StrCell(<<"A">>), StrCell(<<"D", "e", "s", "i", "g", "n">>)} |->
        <<"#", "f", "6", "b", "b", "d", "5">>]

\* the texts of the escaping chain: every text of at most MaxTextLen
\* characters over a letter, the semicolon, the five reserved characters and
\* the hash sign, and the text A & B <C>
EscapeAlphabet == {"a", ";", "&", "<", ">", "\"", "'", "#"}
EscapeTexts ==
    UNION {[1..n -> EscapeAlphabet] : n \in 0..MaxTextLen}
        \cup {<<"A", " ", "&", " ", "B", " ", "<", "C", ">">>}

\* a one-day task on Jan 1 of year y
OneDayRow(name, label, y) ==
    [Task_Name |-> name, Start_date |-> Date(y, 1, 1), Due_date |-> Date(y, 1, 1),
     Completed_Date |-> NaT, Labels |-> label, Bucket_Name |-> NaN]

\* the January of one task named by each text, bare and behind a label
InitEscape ==
    \E t \in EscapeTexts,
       lp \in {<<NaN, FALSE>>, <<StrCell(<<";", "<">>), TRUE>>, <<StrCell(<<"&", "#">>), TRUE>>} :
        DirectCall([columns |-> AllColumns, rows |-> <<OneDayRow(StrCell(t), lp[1], 2024)>>],
                   FALSE, 2024, SomeColors, lp[2], IntMonth(1))

SpecEscape == InitEscape /\ [][NextHtml]_vars

\* the month arguments: none, integers, month names in several letter cases,
\* numerals, and texts that are neither
MonthArgs ==
    {NoMonth, IntMonth(2), IntMonth(12), IntMonth(0), IntMonth(13),
     StrMonth("January"), StrMonth("MARCH"), StrMonth("3"), StrMonth(" 2 "),
     StrMonth("13"), StrMonth("0"), StrMonth("Foo"), StrMonth("")}

\* the tasks of the year y: Design (Jan 1 - Jan 3, label Eng), Review (Jan 3,
\* label Eng), Ship (Jan 31 - Feb 1, no label)
Design == StrCell(<<"D", "e", "s", "i", "g", "n">>)
Review == StrCell(<<"R", "e", "v", "i", "e", "w">>)
Ship == StrCell(<<"S", "h", "i", "p">>)
Eng == StrCell(<<"E", "n", "g">>)
Ops == StrCell(<<"O", "p", "s">>)
ScenarioRows(y) ==
    << [Task_Name |-> Design, Start_date |-> Date(y, 1, 1), Due_date |-> Date(y, 1, 3),
        Completed_Date |-> NaT, Labels |-> Eng, Bucket_Name |-> Ops],
       [Task_Name |-> Review, Start_date |-> Date(y, 1, 3), Due_date |-> Date(y, 1, 3),
        Completed_Date |-> NaT, Labels |-> Eng, Bucket_Name |-> NaN],
       [Task_Name |-> Ship, Start_date |-> Date(y, 1, 31), Due_date |-> Date(y, 2, 1),
        Completed_Date |-> NaT, Labels |-> NaN, Bucket_Name |-> Ops] >>

RenderYears == {2023, 2024}

\* the rows of the label lookup: three names (one of them a number), no
\* label or one of two, dated Jan 1 - Jan 2 of 2024 or undated
LabelNames == {StrCell(<<"A">>), StrCell(<<"B">>), NumCell(<<"7">>)}
LabelRows ==
    {[Task_Name |-> n, Start_date |-> d[1], Due_date |-> d[2], Completed_Date |-> NaT,
      Labels |-> l, Bucket_Name |-> NaN] :
        n \in LabelNames, l \in {NaN, StrCell(<<"E">>), StrCell(<<"F">>)},
        d \in {<<Date(2024, 1, 1), Date(2024, 1, 2)>>, <<NaT, NaT>>}}

\* generate_calendar_html on the tasks of the year under every month
\* argument, and on the label tables for January
InitRender ==
    \/ \E y \in RenderYears, m \in MonthArgs, prefix \in BOOLEAN, no_wrap \in BOOLEAN :
           DirectCall([columns |-> AllColumns, rows |-> ScenarioRows(y)],
                      no_wrap, y, SomeColors, prefix, m)
    \/ \E rows \in SeqsUpTo(LabelRows), prefix \in BOOLEAN :
           DirectCall([columns |-> AllColumns, rows |-> rows],
                      FALSE, 2024, SomeColors, prefix, IntMonth(1))

SpecRender == InitRender /\ [][NextHtml]_vars

----------------------------------------------------------------------------
(* generate_calendar_html called again on the same frame *)

\* calls of generate_calendar_html by one caller
MaxCalls == 2

\* the caller keeps the result of the call that returned and calls again with
\* the same frame object and the same configuration; the locals of the new
\* call are fresh
CallAgain ==
    /\ caller = "direct"
    /\ pc = "gch_returned"
    /\ Len(earlier) + 1 < MaxCalls
    /\ earlier' = Append(earlier, [tasks_by_day |-> tasks_by_day, doc |-> doc])
    /\ pc' = "gch_coerce"
    /\ valid_df' = <<>>
    /\ row_i' = 0
    /\ tasks_by_day' = <<>>
    /\ month_num' = <<>>
    /\ month_i' = 0
    /\ doc' = EmptyDoc
    /\ UNCHANGED <<caller, args, excel, tasks_df, unique_tasks, task_index, task_colors, year,
                   month, prefix_label, no_wrap_text, error, outfile, browser, tab>>

NextCalls == NextHtml \/ CallAgain

\* the rows of the repeated call: two names; no start date or Jan 1 or Jan 2
\* of 2024; a due date of Jan 2 or malformed; no completed date or Jan 1 (a
\* completed date before a start date of Jan 2)
CallRows ==
    [Task_Name : IndexNames, Start_date : {NaT, Date(2024, 1, 1), Date(2024, 1, 2)},
     Due_date : {Malformed, Date(2024, 1, 2)}, Completed_Date : {NaT, Date(2024, 1, 1)},
     Labels : {NaN}, Bucket_Name : {NaN}]

InitCalls ==
    \E rows \in SeqsUpTo(CallRows) :
        DirectCall([columns |-> AllColumns, rows |-> rows], FALSE, 2024,
                   [n \in IndexNames |-> <<"#", "f", "6", "b", "b", "d", "5">>], FALSE, IntMonth(1))

SpecCalls == InitCalls /\ [][NextCalls]_vars

----------------------------------------------------------------------------
(* The colour loop on its own: lines 328-381 of main.py and 376-429 of gui.py
   run on a frame under any setting of the three colour flags, the two
   grouping flags together included *)

NextLoop == CliColor \/ GuiColor

\* tables of up to MaxRows rows: two names, with or without the label E, with
\* or without the bucket F
LoopRows ==
    [Task_Name : IndexNames, Start_date : {Date(2024, 1, 1)}, Due_date : {Date(2024, 1, 2)},
     Completed_Date : {NaT}, Labels : {NaN, StrCell(<<"E">>)},
     Bucket_Name : {NaN, StrCell(<<"F">>)}]

\* the state before the first iteration of the loop of the caller c: the
\* frame read, unique_tasks sorted, task_colors empty
LoopEntry(c, a, rows) ==
    /\ caller = c
    /\ pc = IF c = "cli" THEN "cli_colors" ELSE "gui_colors"
    /\ args = a
    /\ excel = [isfile |-> TRUE, ok |-> TRUE, columns |-> AllColumns, rows |-> rows]
    /\ tasks_df = [columns |-> AllColumns, rows |-> rows]
    /\ unique_tasks = UniqueTasks(rows)
    /\ task_index = 0
    /\ task_colors = <<>>
    /\ year = 0
    /\ month = NoMonth
    /\ prefix_label = FALSE
    /\ no_wrap_text = FALSE
    /\ valid_df = <<>>
    /\ row_i = 0
    /\ tasks_by_day = <<>>
    /\ month_num = <<>>
    /\ month_i = 0
    /\ doc = EmptyDoc
    /\ error = "none"
    /\ outfile = <<>>
    /\ browser = FALSE
    /\ earlier = <<>>
    /\ tab = 0

InitLoop ==
    \E c \in {"cli", "gui"}, rows \in SeqsUpTo(LoopRows), l \in BOOLEAN, b \in BOOLEAN,
       alt \in BOOLEAN :
        LoopEntry(c, [NoArgs EXCEPT !.color_by_label = l, !.color_by_bucket = b,
                                    !.alternate_colors = alt], rows)

SpecLoop == InitLoop /\ [][NextLoop]_vars

----------------------------------------------------------------------------
(* The form of the GUI: the Tk variables of gui.py 45-59 in args, the
   selected tab of the notebook, and the widgets that change them.  A
   checkbutton that has a command changes its variable and then runs the
   command: pc is "form_command" between the two. *)

\* handle_color_by_change with the branches of the tab test swapped
handle_color_by_change_basic(a, t) ==
    IF a.color_by_label /\ a.color_by_bucket
    THEN IF t = 0 THEN [a EXCEPT !.color_by_bucket = FALSE]
         ELSE [a EXCEPT !.color_by_label = FALSE]
    ELSE a

\* gui.py 256-262: the Tk variables after the handler, t the index of the
\* selected tab
handle_color_by_change(a, t) ==
    IF a.color_by_label /\ a.color_by_bucket
    THEN IF t = 1 THEN [a EXCEPT !.color_by_bucket = FALSE]
         ELSE [a EXCEPT !.color_by_label = FALSE]
    ELSE a

\* gui.py 216-222: the checkbutton of color_by_label is invoked
ClickColorByLabel ==
    /\ pc = "form_idle"
    /\ args' = [args EXCEPT !.color_by_label = ~@]
    /\ pc' = "form_command"
    /\ UNCHANGED <<caller, excel, tasks_df, unique_tasks, task_index, task_colors, gch_vars,
                   error, outfile, browser, earlier, tab>>

\* gui.py 225-231: the checkbutton of color_by_bucket is invoked
ClickColorByBucket ==
    /\ pc = "form_idle"
    /\ args' = [args EXCEPT !.color_by_bucket = ~@]
    /\ pc' = "form_command"
    /\ UNCHANGED <<caller, excel, tasks_df, unique_tasks, task_index, task_colors, gch_vars,
                   error, outfile, browser, earlier, tab>>

\* gui.py 256-262: the command of the two checkbuttons
HandleColorByChange ==
    /\ pc = "form_command"
    /\ args' = handle_color_by_change(args, tab)
    /\ pc' = "form_idle"
    /\ UNCHANGED <<caller, excel, tasks_df, unique_tasks, task_index, task_colors, gch_vars,
                   error, outfile, browser, earlier, tab>>

\* gui.py 234-239, 164-177: the checkbuttons without a command
ClickPlainCheck ==
    /\ pc = "form_idle"
    /\ \/ args' = [args EXCEPT !.alternate_colors = ~@]
       \/ args' = [args EXCEPT !.no_wrap_text = ~@]
       \/ args' = [args EXCEPT !.prefix_labels = ~@]
    /\ UNCHANGED <<caller, pc, excel, tasks_df, unique_tasks, task_index, task_colors,
                   gch_vars, error, outfile, browser, earlier, tab>>

\* gui.py 153-157: a month is picked in the combobox
FormMonths == {"", "January", "March"}
SelectMonth ==
    /\ pc = "form_idle"
    /\ \E m \in FormMonths : m /= args.month /\ args' = [args EXCEPT !.month = m]
    /\ UNCHANGED <<caller, pc, excel, tasks_df, unique_tasks, task_index, task_colors,
                   gch_vars, error, outfile, browser, earlier, tab>>

\* gui.py 65-73: the other tab of the notebook is selected
SelectTab ==
    /\ pc = "form_idle"
    /\ tab' = 1 - tab
    /\ UNCHANGED <<caller, pc, args, excel, tasks_df, unique_tasks, task_index, task_colors,
                   gch_vars, error, outfile, browser, earlier>>

NextForm ==
    \/ ClickColorByLabel \/ ClickColorByBucket \/ HandleColorByChange
    \/ ClickPlainCheck \/ SelectMonth \/ SelectTab

\* gui.py 44-59, 65-73: the form after __init__: both grouping checkbuttons
\* off, the year of today, the first tab selected
InitForm ==
    /\ caller = "gui"
    /\ pc = "form_idle"
    /\ args = [NoArgs EXCEPT !.excel_file = "", !.year_str = "2026"]
    /\ excel = [isfile |-> FALSE, ok |-> FALSE, columns |-> {}, rows |-> <<>>]
    /\ tasks_df = NoFrame
    /\ unique_tasks = <<>>
    /\ task_index = 0
    /\ task_colors = <<>>
    /\ year = 0
    /\ month = NoMonth
    /\ prefix_label = FALSE
    /\ no_wrap_text = FALSE
    /\ valid_df = <<>>
    /\ row_i = 0
    /\ tasks_by_day = <<>>
    /\ month_num = <<>>
    /\ month_i = 0
    /\ doc = EmptyDoc
    /\ error = "none"
    /\ outfile = <<>>
    /\ browser = FALSE
    /\ earlier = <<>>
    /\ tab = 0

SpecForm == InitForm /\ [][NextForm]_vars

----------------------------------------------------------------------------
(* The two colour loops side by side: the loop of main.py on a frame, then a
   run of the GUI's generate_calendar on the same workbook with the form
   holding the same options; earlier keeps the map of main.py *)

\* the loop of main.py has ended; the Generate button is clicked on a form
\* with the options of the command line
RunGui ==
    /\ caller = "cli"
    /\ pc = "cli_colors"
    /\ task_index >= Len(unique_tasks)
    /\ earlier = <<>>
    /\ earlier' = <<[task_colors |-> task_colors]>>
    /\ caller' = "gui"
    /\ pc' = "gui_start"
    /\ tasks_df' = NoFrame
    /\ unique_tasks' = <<>>
    /\ task_index' = 0
    /\ task_colors' = <<>>
    /\ UNCHANGED <<args, excel, gch_vars, error, outfile, browser, tab>>

NextBoth == CliColor \/ RunGui \/ GuiValidate \/ GuiReadExcel \/ GuiCheckColumns \/ GuiColor

\* saturation and lightness in hundredths, as <<saturation, lightness>>: the
\* defaults, the ends of [0, 1], and values outside it
ColorSettings ==
    {<<70, 85>>, <<100, 85>>, <<0, 85>>, <<70, 0>>, <<70, 100>>,
     <<150, 85>>, <<-10, 85>>, <<70, 120>>, <<70, -10>>}

\* the settings of the grouping flags, at most one of them set
GroupingFlags == {<<FALSE, FALSE>>, <<TRUE, FALSE>>, <<FALSE, TRUE>>}

InitBoth ==
    \E rows \in SeqsUpTo(LoopRows), lb \in GroupingFlags, alt \in BOOLEAN,
       sl \in ColorSettings :
        LoopEntry("cli", [NoArgs EXCEPT !.color_by_label = lb[1], !.color_by_bucket = lb[2],
                                        !.alternate_colors = alt,
                                        !.color_saturation = sl[1],
                                        !.color_lightness = sl[2]], rows)

SpecBoth == InitBoth /\ [][NextBoth]_vars

----------------------------------------------------------------------------
(* The program: a run of main.main or of the GUI's Generate buttons *)

Next ==
    \/ CliValidate \/ CliReadExcel \/ CliCheckColumns \/ CliColor \/ CliTarget \/ CliWrite
    \/ GuiValidate \/ GuiReadExcel \/ GuiCheckColumns \/ GuiColor \/ GuiTarget \/ GuiWrite
    \/ GuiExcept \/ GuiView
    \/ GchCoerce \/ GchResolve \/ GchExpandRow \/ GchConvertMonth \/ GchRenderMonth \/ GchReturn

Callers == {"cli", "gui"}

\* the state at the start of main.main after parse_args, or at the click of a
\* Generate button with the form holding a
Start(c, a, x) ==
    /\ caller = c
    /\ pc = IF c = "cli" THEN "cli_start" ELSE "gui_start"
    /\ args = a
    /\ excel = x
    /\ tasks_df = NoFrame
    /\ unique_tasks = <<>>
    /\ task_index = 0
    /\ task_colors = <<>>
    /\ year = 0
    /\ month = NoMonth
    /\ prefix_label = FALSE
    /\ no_wrap_text = FALSE
    /\ valid_df = <<>>
    /\ row_i = 0
    /\ tasks_by_day = <<>>
    /\ month_num = <<>>
    /\ month_i = 0
    /\ doc = EmptyDoc
    /\ error = "none"
    /\ outfile = <<>>
    /\ browser = FALSE
    /\ earlier = <<>>
    /\ tab = 0

\* a workbook with a Tasks sheet
Workbook(cols, rows) == [isfile |-> TRUE, ok |-> TRUE, columns |-> cols, rows |-> rows]

\* every setting of the colour flags and of prefix-labels, for the full year,
\* a month name and a month numeral, on the tasks of 2024
InitOptions ==
    \E c \in Callers, l \in BOOLEAN, b \in BOOLEAN, alt \in BOOLEAN, p \in BOOLEAN,
       m \in {"", "January", "3"} :
        Start(c, [NoArgs EXCEPT !.color_by_label = l, !.color_by_bucket = b,
                                !.alternate_colors = alt, !.prefix_labels = p, !.month = m],
              Workbook(AllColumns, ScenarioRows(2024)))

\* the tasks of 2024 in a sheet with any of the optional columns, or without
\* the Due date column
InitColumns ==
    \E c \in Callers,
       cols \in {Range(RequiredColumns) \cup o : o \in SUBSET (AllColumns \ Range(RequiredColumns))}
                    \cup {AllColumns \ {"Due date"}},
       lb \in {<<FALSE, FALSE>>, <<TRUE, FALSE>>, <<FALSE, TRUE>>}, p \in BOOLEAN :
        Start(c, [NoArgs EXCEPT !.color_by_label = lb[1], !.color_by_bucket = lb[2],
                                !.prefix_labels = p, !.month = "January"],
              Workbook(cols, ScenarioRows(2024)))

\* tables of up to MaxRows rows dated Jan 1 - Jan 2 of 2024: three names (one
\* of them a number), no label or one of two
NameRows ==
    {[Task_Name |-> n, Start_date |-> Date(2024, 1, 1), Due_date |-> Date(2024, 1, 2),
      Completed_Date |-> NaT, Labels |-> l, Bucket_Name |-> NaN] :
        n \in LabelNames, l \in {NaN, StrCell(<<"E">>), StrCell(<<"F">>)}}

InitNames ==
    \E c \in Callers, rows \in SeqsUpTo(NameRows), l \in BOOLEAN, alt \in BOOLEAN,
       p \in BOOLEAN :
        Start(c, [NoArgs EXCEPT !.color_by_label = l, !.alternate_colors = alt,
                                !.prefix_labels = p, !.month = "January"],
              Workbook(AllColumns, rows))

\* one option away from the defaults
ArgVariants ==
    {NoArgs,
     [NoArgs EXCEPT !.year = 2023],
     [NoArgs EXCEPT !.year_str = " 2024 "],
     [NoArgs EXCEPT !.year_str = "abc"],
     [NoArgs EXCEPT !.year_str = "1800"],
     [NoArgs EXCEPT !.color_saturation = 150],
     [NoArgs EXCEPT !.color_saturation = 100],
     [NoArgs EXCEPT !.color_lightness = -10],
     [NoArgs EXCEPT !.month = "13"],
     [NoArgs EXCEPT !.month = "Foo"],
     [NoArgs EXCEPT !.month = "MARCH"],
     [NoArgs EXCEPT !.no_wrap_text = TRUE],
     [NoArgs EXCEPT !.output = "missing_dir/out.html"],
     [NoArgs EXCEPT !.excel_file = ""]}

\* the tasks of 2024 without their dates
UndatedRows ==
    [i \in DOMAIN ScenarioRows(2024) |->
        [ScenarioRows(2024)[i] EXCEPT !.Start_date = NaT, !.Due_date = NaT]]

\* the workbooks: the tasks of 2024, the same without dates, the same
\* without the Due date column, a path that is no file, a file without a
\* Tasks sheet
WorkbookVariants ==
    {Workbook(AllColumns, ScenarioRows(2024)),
     Workbook(AllColumns, UndatedRows),
     Workbook(AllColumns \ {"Due date"}, ScenarioRows(2024)),
     [isfile |-> FALSE, ok |-> FALSE, columns |-> {}, rows |-> <<>>],
     [isfile |-> TRUE, ok |-> FALSE, columns |-> {}, rows |-> <<>>]}

InitInputs ==
    \E c \in Callers, a \in ArgVariants, x \in WorkbookVariants, v \in BOOLEAN :
        Start(c, [a EXCEPT !.view = v], x)

Init == InitOptions \/ InitColumns \/ InitNames \/ InitInputs

Spec == Init /\ [][Next]_vars

----------------------------------------------------------------------------
(* The claims *)

\* a date cell of the source holds a date
Present(c) == c > 0

\* the effective due date of a source row: the completed date when present,
\* otherwise the due date; NaT when neither is a date
EffectiveDue(r) ==
    IF Present(r.Completed_Date) THEN r.Completed_Date
    ELSE IF Present(r.Due_date) THEN r.Due_date ELSE NaT

\* the effective start date of a source row: the start date when present,
\* otherwise the effective due date
EffectiveStart(r) == IF Present(r.Start_date) THEN r.Start_date ELSE EffectiveDue(r)

\* the row resolves to a range
Resolves(r) == EffectiveStart(r) /= NaT /\ EffectiveDue(r) /= NaT

\* the loop over the rows has ended
Indexed ==
    \/ pc \in {"gch_months", "gch_returned"}
    \/ pc = "gch_rows" /\ row_i > Len(valid_df)
    \/ pc = "raised" /\ month_num /= <<>>

\* n is listed under d in the day index
Listed(n, d) == d \in DOMAIN tasks_by_day /\ n \in Range(tasks_by_day[d])

\* the dates a name is listed under
ListedDays(n) == {d \in DOMAIN tasks_by_day : n \in Range(tasks_by_day[d])}

\* the days of the ranges of the source rows named n, each clipped to year y
ClippedDays(n, y) ==
    UNION {Max(EffectiveStart(excel.rows[i]), Date(y, 1, 1))
               ..Min(EffectiveDue(excel.rows[i]), Date(y, 12, 31)) :
           i \in {j \in DOMAIN excel.rows :
                     excel.rows[j].Task_Name = n /\ Resolves(excel.rows[j])}}

\* C1: once the rows are processed, a name n is listed under a date d exactly
\* when some source row named n resolves to a range (start, end) with
\* max(start, Jan 1 of the year) <= d <= min(end, Dec 31 of the year); every
\* key of the index is a date of the year, and only names of the source are
\* listed.
C1_IndexIsClippedRanges ==
    Indexed =>
        /\ \A d \in DOMAIN tasks_by_day : YearOf(d) = year
        /\ \A n \in {excel.rows[i].Task_Name : i \in DOMAIN excel.rows} :
               ListedDays(n) = ClippedDays(n, year)
        /\ \A d \in DOMAIN tasks_by_day :
               /\ tasks_by_day[d] /= <<>>
               /\ Range(tasks_by_day[d]) \subseteq
                      {excel.rows[i].Task_Name : i \in DOMAIN excel.rows}

\* C1 witness: a task from Dec 20 of the year before to Jan 5 of the year is
\* indexed on Jan 1..Jan 5 and on no other date
C1_Witness ==
    /\ Indexed
    /\ year = 2024
    /\ Len(excel.rows) = 1
    /\ excel.rows[1].Start_date = Date(2023, 12, 20)
    /\ excel.rows[1].Due_date = Date(2024, 1, 5)
    /\ excel.rows[1].Completed_Date = NaT
    /\ DOMAIN tasks_by_day = Date(2024, 1, 1)..Date(2024, 1, 5)

\* C2: after the date resolution every row of the frame holds the effective
\* dates (due: completed when present, else due; start: start when present,
\* else the effective due), the rows kept are, in order, the rows whose two
\* effective dates are present, and no error was raised.
C2_ResolutionOrder ==
    pc \in {"gch_rows", "gch_months", "gch_returned"} =>
        /\ error = "none"
        /\ Len(tasks_df.rows) = Len(excel.rows)
        /\ \A i \in DOMAIN excel.rows :
               /\ tasks_df.rows[i].Due_date = EffectiveDue(excel.rows[i])
               /\ tasks_df.rows[i].Start_date = EffectiveStart(excel.rows[i])
        /\ \E f \in [1..Len(valid_df) -> 1..Len(excel.rows)] :
               /\ \A a, b \in 1..Len(valid_df) : a < b => f[a] < f[b]
               /\ {f[a] : a \in 1..Len(valid_df)} = {i \in DOMAIN excel.rows : Resolves(excel.rows[i])}
               /\ \A a \in 1..Len(valid_df) :
                      /\ valid_df[a].Task_Name = excel.rows[f[a]].Task_Name
                      /\ valid_df[a].Start_date = EffectiveStart(excel.rows[f[a]])
                      /\ valid_df[a].Due_date = EffectiveDue(excel.rows[f[a]])

\* C2 witness: a row with no start date, a malformed due date and a completed
\* date is kept, with both dates equal to the completed date
C2_Witness ==
    /\ pc = "gch_rows"
    /\ Len(excel.rows) = 1
    /\ excel.rows[1].Start_date = NaT
    /\ excel.rows[1].Due_date = Malformed
    /\ excel.rows[1].Completed_Date = Date(2024, 1, 5)
    /\ Len(valid_df) = 1
    /\ valid_df[1].Start_date = Date(2024, 1, 5)
    /\ valid_df[1].Due_date = Date(2024, 1, 5)

----------------------------------------------------------------------------
(* The document *)

\* the spans of the document: <<block, cell, position>>
SpanPlaces ==
    {<<b, c, j>> \in (DOMAIN doc.blocks) \X (1..42) \X (1..3) :
        /\ c \in DOMAIN doc.blocks[b].cells
        /\ j \in DOMAIN doc.blocks[b].cells[c].tasks}
SpanAt(p) == doc.blocks[p[1]].cells[p[2]].tasks[p[3]]
CellAt(p) == doc.blocks[p[1]].cells[p[2]]

\* the task name a span was made from
NameAt(p) == tasks_by_day[CellAt(p).date][p[3]]

\* the five entities, and what a character of the text is emitted as
Amp == <<"&", "a", "m", "p", ";">>
Lt == <<"&", "l", "t", ";">>
Gt == <<"&", "g", "t", ";">>
Quot == <<"&", "q", "u", "o", "t", ";">>
Apos == <<"&", "#", "3", "9", ";">>
Entities == {Amp, Lt, Gt, Quot, Apos}
EmittedAs(c) ==
    CASE c = ";" -> <<>> [] c = "&" -> Amp [] c = "<" -> Lt [] c = ">" -> Gt
      [] c = "\"" -> Quot [] c = "'" -> Apos [] OTHER -> <<c>>

\* the text t, character by character, as the claim has it emitted
RECURSIVE Emitted(_)
Emitted(t) == IF t = <<>> THEN <<>> ELSE EmittedAs(Head(t)) \o Emitted(Tail(t))

\* no raw reserved character; every & starts an entity; every ; ends one
WellFormed(e) ==
    \A i \in DOMAIN e :
        /\ e[i] \notin {"<", ">", "\"", "'"}
        /\ e[i] = "&" =>
               \E ent \in Entities :
                   i + Len(ent) - 1 <= Len(e) /\ SubSeq(e, i, i + Len(ent) - 1) = ent
        /\ e[i] = ";" =>
               \E ent \in Entities :
                   i - Len(ent) + 1 >= 1 /\ SubSeq(e, i - Len(ent) + 1, i) = ent

\* the displayed text of the one task of an escaping run: the name, behind
\* the label when labels are prefixed
DisplayedText ==
    LET r == excel.rows[1]
    IN IF prefix_label /\ NotNa(r.Labels) THEN r.Labels.s \o r.Task_Name.s ELSE r.Task_Name.s

\* C4: the text emitted for a displayed text t, in the span's body and in its
\* title alike, is t with every semicolon removed and each of & < > " '
\* replaced by its entity: it holds no raw < > " ', every & in it starts an
\* entity, every semicolon in it ends one, and nothing is escaped twice.  The
\* returned document holds the span.
C4_EscapedText ==
    /\ \A p \in SpanPlaces :
           /\ SpanAt(p).body = Emitted(DisplayedText)
           /\ SpanAt(p).title = SpanAt(p).body
           /\ WellFormed(SpanAt(p).body)
    /\ pc = "gch_returned" => \E p \in SpanPlaces : CellAt(p).date = Date(2024, 1, 1)

\* C4 witness: the task A & B <C> is emitted as A &amp; B &lt;C&gt;
C4_Witness ==
    /\ pc = "gch_returned"
    /\ excel.rows[1].Task_Name.s = <<"A", " ", "&", " ", "B", " ", "<", "C", ">">>
    /\ ~prefix_label
    /\ \E p \in SpanPlaces :
           SpanAt(p).body = <<"A", " ", "&", "a", "m", "p", ";", " ", "B", " ",
                              "&", "l", "t", ";", "C", "&", "g", "t", ";">>

\* the months of the document's blocks, in order
BlockMonths == [i \in DOMAIN doc.blocks |-> doc.blocks[i].month]

\* the month a month argument of the model asks for; -1 for a text that is
\* neither a month name nor a numeral
RequestedMonth(m) ==
    IF m.k = "int" THEN m.n
    ELSE CASE m.s = "January" -> 1 [] m.s = "MARCH" -> 3 [] m.s = "3" -> 3
           [] m.s = " 2 " -> 2 [] m.s = "13" -> 13 [] m.s = "0" -> 0 [] OTHER -> -1

\* C7 as stated: with a month argument the document holds one block, the
\* requested month; without one it holds the months 1..12 in order.
C7_ProvidedMonthIsSingle ==
    pc = "gch_returned" =>
        IF month.k = "none"
        THEN BlockMonths = [i \in 1..12 |-> i]
        ELSE BlockMonths = <<RequestedMonth(month)>>

\* C7 as amended: the document holds the one requested month when the month
\* argument is an integer 1..12, a month name in any letter case or a numeral
\* of 1..12; it holds the months 1..12 in order when there is no month
\* argument or when the argument is a text that is neither a month name nor
\* a numeral; a number outside 1..12 gives no document.
C7_MonthBlocks ==
    /\ pc = "gch_returned" =>
           IF month.k = "none" \/ (month.k = "str" /\ RequestedMonth(month) = -1)
           THEN BlockMonths = [i \in 1..12 |-> i] /\ ~doc.single_month
           ELSE /\ RequestedMonth(month) \in 1..12
                /\ BlockMonths = <<RequestedMonth(month)>>
                /\ doc.single_month
    /\ pc = "raised" /\ error \in {"IndexError", "IllegalMonthError"} =>
           month.k /= "none" /\ RequestedMonth(month) \notin 1..12 /\ RequestedMonth(month) /= -1

\* C7 witness: the month name MARCH gives the one block of March
C7_Witness ==
    /\ pc = "gch_returned"
    /\ month = StrMonth("MARCH")
    /\ BlockMonths = <<3>>

\* C8: a day cell is marked other-month exactly when its date's month is not
\* the month of its block, and it shows the tasks indexed under its date.
C8_OtherMonthIffOutsideBlock ==
    \A b \in DOMAIN doc.blocks : \A c \in DOMAIN doc.blocks[b].cells :
        LET cell == doc.blocks[b].cells[c]
        IN /\ (cell.day_class = "day other-month") <=> (MonthOf(cell.date) /= doc.blocks[b].month)
           /\ Len(cell.tasks) = Len(TasksToday(tasks_by_day, cell.date))

\* the non-empty labels of the source records named n, in source order
RECURSIVE NonEmptyLabels(_, _)
NonEmptyLabels(rows, n) ==
    IF rows = <<>> THEN <<>>
    ELSE (IF Head(rows).Task_Name = n /\ NotNa(Head(rows).Labels) /\ Head(rows).Labels.s /= <<>>
          THEN <<Head(rows).Labels>> ELSE <<>>) \o NonEmptyLabels(Tail(rows), n)

\* C9: with prefix-labels on, the displayed text of a task is the first
\* non-empty label among the source records of that name followed by the
\* name, and the bare name when there is none; with prefix-labels off it is
\* the bare name.
C9_PrefixIsFirstNonEmptyLabel ==
    \A p \in SpanPlaces :
        LET n == NameAt(p)
            labels == NonEmptyLabels(excel.rows, n)
        IN SpanAt(p).body =
               Emitted(IF prefix_label /\ labels /= <<>> THEN labels[1].s \o Str(n) ELSE Str(n))

----------------------------------------------------------------------------
(* The callers *)

\* C3: a sheet with the three required columns, with or without the optional
\* ones, never ends a run of colour assignment and generate_calendar_html
\* with an error raised inside them: no KeyError and no AttributeError.
C3_EngineCompletes ==
    caller \in Callers /\ Range(RequiredColumns) \subseteq excel.columns =>
        error \notin {"KeyError", "AttributeError"}

\* the source rows whose task name is the text of the key n, and the label of
\* the first of them (NaN when there is none)
RowsNamed(n) == {i \in DOMAIN excel.rows : excel.rows[i].Task_Name = n}
KeyLabel(n) ==
    IF RowsNamed(n) = {} THEN NaN
    ELSE excel.rows[CHOOSE i \in RowsNamed(n) : \A j \in RowsNamed(n) : i <= j].Labels

\* the colour of the hash of a key's own name
NameHashColor(n) ==
    HexColor(Md5Mod360(n.s), Clamp(args.color_lightness), Clamp(args.color_saturation))

C6_ColorsTotal ==
    caller \in Callers =>
        /\ \A d \in DOMAIN tasks_by_day : \A j \in DOMAIN tasks_by_day[d] :
               tasks_by_day[d][j] \in DOMAIN task_colors
        /\ \A p \in SpanPlaces : SpanAt(p).background_color /= FallbackColor

\* the errors validate_inputs shows
ValidationErrors ==
    {"no_file", "file_not_found", "year_not_integer", "year_out_of_range", "saturation",
     "lightness", "both_flags"}

\* C10: with color-by-label and color-by-bucket both on, main.main exits with
\* the both-flags error and generate_calendar returns on a failed
\* validation; neither reads the workbook, assigns a colour, builds a
\* document, writes the output file or opens the browser, and the colour
\* loop is never at work with both flags on.
C10_BothFlagsRejected ==
    /\ caller \in Callers /\ args.color_by_label /\ args.color_by_bucket =>
           /\ pc \in {"cli_start", "exit_1", "gui_start", "gui_returned", "gui_ready"}
           /\ pc = "exit_1" => error = "both_flags"
           /\ pc \in {"gui_returned", "gui_ready"} => error \in ValidationErrors
           /\ tasks_df = NoFrame
           /\ unique_tasks = <<>> /\ task_colors = <<>>
           /\ doc = EmptyDoc
           /\ outfile = <<>>
           /\ ~browser
    /\ pc \in {"cli_colors", "gui_colors"} => ~(args.color_by_label /\ args.color_by_bucket)

\* C10 witness: the GUI, with a readable workbook and both flags on, has
\* returned from generate_calendar with the both-flags error and nothing
\* written
C10_Witness ==
    /\ caller = "gui"
    /\ args.color_by_label /\ args.color_by_bucket
    /\ excel.ok
    /\ pc = "gui_returned"
    /\ error = "both_flags"
    /\ outfile = <<>>

----------------------------------------------------------------------------
(* The repeated call and the frame *)

\* the source row r covers the date d of the year y
Covers(r, d, y) ==
    /\ Resolves(r)
    /\ Max(EffectiveStart(r), Date(y, 1, 1)) <= d
    /\ d <= Min(EffectiveDue(r), Date(y, 12, 31))

\* the source rows named n that cover d, and the position of the first
CoveringRows(n, d) ==
    {i \in DOMAIN excel.rows : excel.rows[i].Task_Name = n /\ Covers(excel.rows[i], d, year)}
FirstCovering(n, d) == CHOOSE i \in CoveringRows(n, d) : \A j \in CoveringRows(n, d) : i <= j

\* the names of a day are in the order of their first covering source rows
InSourceOrder(d) ==
    \A j \in DOMAIN tasks_by_day[d], k \in DOMAIN tasks_by_day[d] :
        j < k =>
            /\ CoveringRows(tasks_by_day[d][j], d) /= {}
            /\ CoveringRows(tasks_by_day[d][k], d) /= {}
            /\ FirstCovering(tasks_by_day[d][j], d) < FirstCovering(tasks_by_day[d][k], d)

\* C11: a call of generate_calendar_html on the frame as an earlier call with
\* the same configuration left it builds the day index of the earlier call
\* and returns its document; the names of each day are in the order of the
\* source rows, not of the names.
C11_SecondCallIdentical ==
    /\ Indexed =>
           /\ \A i \in DOMAIN earlier : tasks_by_day = earlier[i].tasks_by_day
           /\ \A d \in DOMAIN tasks_by_day : InSourceOrder(d)
    /\ pc = "gch_returned" => \A i \in DOMAIN earlier : doc = earlier[i].doc
    /\ earlier /= <<>> => error = "none"

\* C11 witness: the second call has returned; the first call filled the
\* missing start date of the first row (B, due Jan 2) in the caller's frame;
\* Jan 2 lists B before A, the order of the rows
C11_Witness ==
    /\ pc = "gch_returned"
    /\ Len(earlier) = 1
    /\ Len(excel.rows) = 2
    /\ excel.rows[1].Task_Name = StrCell(<<"B">>) /\ excel.rows[2].Task_Name = StrCell(<<"A">>)
    /\ excel.rows[1].Start_date = NaT
    /\ tasks_df.rows[1].Start_date = Date(2024, 1, 2)
    /\ Date(2024, 1, 2) \in DOMAIN tasks_by_day
    /\ tasks_by_day[Date(2024, 1, 2)] = <<StrCell(<<"B">>), StrCell(<<"A">>)>>
    /\ doc = earlier[1].doc

\* C12: when generate_calendar_html has returned, the caller's frame holds
\* the rows it held before the call, each with the Start date, Due date and
\* Completed Date it had (a cell that is no date counting as an empty one),
\* and task_colors is what the caller passed.
C12_InputsUnchanged ==
    pc = "gch_returned" =>
        /\ Len(tasks_df.rows) = Len(excel.rows)
        /\ \A i \in DOMAIN excel.rows :
               /\ tasks_df.rows[i].Start_date = ToDatetime(excel.rows[i].Start_date)
               /\ tasks_df.rows[i].Due_date = ToDatetime(excel.rows[i].Due_date)
               /\ tasks_df.rows[i].Completed_Date = ToDatetime(excel.rows[i].Completed_Date)
        /\ task_colors = [n \in IndexNames |-> <<"#", "f", "6", "b", "b", "d", "5">>]

\* C13: every row that reaches the loop over the rows has its start date on
\* or before its end date, whatever the start, due and completed dates were
\* (here: in a table none of whose rows has a due date before its start
\* date); so a kept row whose dates meet the target year is listed on some
\* day.
C13_RangesOrdered ==
    (/\ pc = "gch_rows"
     /\ \A i \in DOMAIN excel.rows :
            Present(excel.rows[i].Start_date) /\ Present(excel.rows[i].Due_date) =>
                excel.rows[i].Start_date <= excel.rows[i].Due_date) =>
        \A i \in DOMAIN valid_df :
            /\ valid_df[i].Start_date <= valid_df[i].Due_date
            /\ (i < row_i /\ YearOf(valid_df[i].Start_date) <= year
                          /\ YearOf(valid_df[i].Due_date) >= year) =>
                   \E d \in DOMAIN tasks_by_day : Listed(valid_df[i].Task_Name, d)

----------------------------------------------------------------------------
(* The colour loop *)

\* the bucket of the first source row whose task name is the text of the key
\* n (NaN when there is none)
KeyBucket(n) ==
    IF RowsNamed(n) = {} THEN NaN
    ELSE excel.rows[CHOOSE i \in RowsNamed(n) : \A j \in RowsNamed(n) : i <= j].Bucket_Name

\* the 0-based position of the key n in the ascending sort of the distinct
\* task names
KeyPosition(n) ==
    Cardinality({m \in {Str(excel.rows[i].Task_Name) : i \in DOMAIN excel.rows} :
                    StrLess(m, n.s)})

\* the key n takes its hue from its label, or from its bucket
ByItsLabel(n) == args.color_by_label /\ NotNa(KeyLabel(n))
ByItsBucket(n) == ~ByItsLabel(n) /\ args.color_by_bucket /\ NotNa(KeyBucket(n))

\* the hash the precedence label, bucket, name picks for the key n
SourceHash(n) ==
    IF ByItsLabel(n) THEN Md5Mod360(Str(KeyLabel(n)))
    ELSE IF ByItsBucket(n) THEN Md5Mod360(Str(KeyBucket(n)))
    ELSE Md5Mod360(n.s)

\* the colour code of a hue under the run's lightness and saturation
ColorOfHue(k) == HexColor(k, Clamp(args.color_lightness), Clamp(args.color_saturation))

----------------------------------------------------------------------------
(* The lists of the day index *)

\* C17: after any number of rows of the iterrows loop, no day's list holds a
\* name twice, and the names of a day are in the order of the first source
\* rows that cover the day under each name.
C17_NoDuplicateInRowOrder ==
    pc = "gch_rows" =>
        \A d \in DOMAIN tasks_by_day :
            /\ \A j \in DOMAIN tasks_by_day[d], k \in DOMAIN tasks_by_day[d] :
                   j /= k => tasks_by_day[d][j] /= tasks_by_day[d][k]
            /\ InSourceOrder(d)

\* C17 witness: two rows named A, both covering Jan 1 2024, have been
\* processed, and Jan 1 lists A once
C17_Witness ==
    /\ pc = "gch_rows"
    /\ Len(excel.rows) = 2 /\ row_i = 3
    /\ excel.rows[1].Task_Name = StrCell(<<"A">>) /\ excel.rows[2].Task_Name = StrCell(<<"A">>)
    /\ CoveringRows(StrCell(<<"A">>), Date(2024, 1, 1)) = {1, 2}
    /\ tasks_by_day[Date(2024, 1, 1)] = <<StrCell(<<"A">>)>>

----------------------------------------------------------------------------
(* The colour code *)

\* the hue in degrees the loop gives the key n
LoopHue(n) ==
    IF caller = "cli" THEN CliHue(tasks_df.rows, args, KeyPosition(n), n.s)
    ELSE GuiHue(tasks_df.rows, args, KeyPosition(n), n.s)

\* 600000 times component * 255, for the three components of the colour of
\* the hue h (degrees), lightness l and saturation s (hundredths)
Channels255(h, l, s) ==
    IF s = 0 THEN [i \in 1..3 |-> 6000 * 255 * l]
    ELSE LET m2 == IF l <= 50 THEN l * (100 + s) ELSE 100 * l + 100 * s - l * s
             m1 == 200 * l - m2
         IN <<255 * HlsV(m1, m2, h + 120), 255 * HlsV(m1, m2, h), 255 * HlsV(m1, m2, h + 240)>>

\* c is an integer nearest to x / 600000
Nearest(c, x) ==
    /\ 2 * (600000 * c - x) <= 600000
    /\ 2 * (x - 600000 * c) <= 600000

\* C18: the colour code of every task is # followed by six hexadecimal
\* digits, two for each channel, and each channel is the integer of 0..255
\* nearest to component * 255.
C18_ChannelsRounded ==
    \A n \in DOMAIN task_colors :
        LET x == Channels255(LoopHue(n), Clamp(args.color_lightness),
                             Clamp(args.color_saturation))
        IN /\ Len(task_colors[n]) = 7
           /\ task_colors[n][1] = "#"
           /\ \A i \in 1..3 :
                  \E c \in 0..255 :
                      /\ SubSeq(task_colors[n], 2 * i, 2 * i + 1) = Hex02(c)
                      /\ Nearest(c, x[i])

----------------------------------------------------------------------------
(* The form *)

\* C19: from the form as constructed, whenever no command is pending
\* color_by_label and color_by_bucket are not both true; the handler, run
\* with both true, clears color_by_bucket and nothing else when the advanced
\* tab (index 1) is selected and color_by_label and nothing else otherwise,
\* and run with at most one true it changes nothing.
C19_NeverBothGrouping ==
    /\ [](pc = "form_idle" => ~(args.color_by_label /\ args.color_by_bucket))
    /\ [][pc = "form_command" =>
              /\ tab' = tab
              /\ args' = IF ~(args.color_by_label /\ args.color_by_bucket) THEN args
                         ELSE IF tab = 1 THEN [args EXCEPT !.color_by_bucket = FALSE]
                         ELSE [args EXCEPT !.color_by_label = FALSE]
              /\ (args.color_by_label /\ args.color_by_bucket =>
                      args'.color_by_label /= args'.color_by_bucket)]_vars

\* C19 witness: on the advanced tab, with alternate-colors and a month set,
\* both grouping variables are true and the handler is about to run
C19_Witness ==
    /\ pc = "form_command"
    /\ tab = 1
    /\ args.color_by_label /\ args.color_by_bucket
    /\ args.alternate_colors /\ args.month = "January"

----------------------------------------------------------------------------
(* The browser *)

\* C20: the browser has been opened only by the GUI's Generate and View
\* button, after validate_inputs passed, the workbook was read, the required
\* columns were found, the document was generated and the output file
\* holds it; a run that ended any other way has left the browser closed,
\* and a run whose validation failed has written no output file.
C20_BrowserOnlyAfterSuccess ==
    /\ browser =>
           /\ caller = "gui" /\ args.view /\ pc = "gui_ready"
           /\ GuiValidationError(args, excel) = "none"
           /\ excel.ok /\ Len(tasks_df.rows) = Len(excel.rows)
           /\ Range(RequiredColumns) \subseteq tasks_df.columns
           /\ doc.blocks /= <<>>
           /\ outfile = <<doc>>
           /\ error = "none"
    /\ caller = "gui" /\ error /= "none" => ~browser
    /\ caller = "gui" /\ GuiValidationError(args, excel) /= "none" => outfile = <<>>

\* C20 witness: Generate and View has opened the browser on the written
\* document of the tasks of 2024
C20_Witness ==
    /\ caller = "gui" /\ pc = "gui_ready" /\ args.view
    /\ browser
    /\ outfile = <<doc>>
    /\ Len(doc.blocks) = 12

----------------------------------------------------------------------------
(* The two colour loops *)

\* saturation and lightness are within [0, 1]
InUnitRange(a) ==
    /\ 0 <= a.color_saturation /\ a.color_saturation <= 100
    /\ 0 <= a.color_lightness /\ a.color_lightness <= 100

\* C21: on the same table, with the same flags (at most one grouping flag)
\* and the same saturation and lightness within [0, 1], every colour the
\* GUI's loop assigns is the colour the loop of main.py assigned to that
\* name, and at the end of the loop the two maps are equal; with a
\* saturation or lightness outside [0, 1] the map of main.py is the one of
\* the values clamped into [0, 1], and the GUI assigns no colour.
C21_LoopsEquivalent ==
    caller = "gui" =>
        /\ \A n \in DOMAIN task_colors :
               /\ n \in DOMAIN earlier[1].task_colors
               /\ task_colors[n] = earlier[1].task_colors[n]
        /\ pc = "gui_colors" /\ task_index >= Len(unique_tasks) =>
               task_colors = earlier[1].task_colors
        /\ pc = "gui_colors" => InUnitRange(args)
        /\ ~InUnitRange(args) =>
               /\ task_colors = <<>>
               /\ pc \in {"gui_start", "gui_returned"}
               /\ \A n \in DOMAIN earlier[1].task_colors :
                      earlier[1].task_colors[n] =
                          HexColor(GuiHue(excel.rows, args, KeyPosition(n), n.s),
                                   Max(0, Min(100, args.color_lightness)),
                                   Max(0, Min(100, args.color_saturation)))

\* C21 witness: color-by-bucket and alternate-colors, default saturation and
\* lightness: the GUI's loop has ended with the map of main.py, in which B
\* (bucket F, second in the sort) has the colour of 29 degrees
C21_Witness ==
    /\ caller = "gui" /\ pc = "gui_colors"
    /\ args.color_by_bucket /\ args.alternate_colors
    /\ args.color_saturation = 70 /\ args.color_lightness = 85
    /\ task_index = 2 /\ Len(unique_tasks) = 2
    /\ KeyBucket(StrCell(<<"B">>)) = StrCell(<<"F">>)
    /\ task_colors = earlier[1].task_colors
    /\ task_colors[StrCell(<<"B">>)] = <<"#", "f", "3", "d", "7", "b", "d">>

====
